---- MODULE Spec2Model ----
(***************************************************************************)
(* Model of src/grid.tsx (ElasticSearchGrid): the React state of the       *)
(* component (inputValue, selected, availableRows), the two memoised       *)
(* values derived from it (columnValueMap, suggestions), the filters the   *)
(* component hands to the grid (filterModel, globalTerms) and the rows the *)
(* grid displays after filtering.                                          *)
(*                                                                         *)
(* A string is a sequence of one-character strings, so that toLowerCase    *)
(* and includes are computed character by character.  Column names are     *)
(* only ever compared for equality and stay TLA+ strings.                  *)
(***************************************************************************)
EXTENDS Integers, Sequences, FiniteSets, TLC

VARIABLES
    inputValue,     \* useState("")            (line 38)
    selected,       \* useState<Suggestion[]>  (line 39): the chips
    availableRows,  \* useState(rowData)       (line 40)
    filterModel,    \* the grid's column filter model, set by setFilterModel
    globalTerms,    \* the terms captured by the grid's external filter
    displayedRows,  \* the grid's rows after filter (forEachNodeAfterFilterAndSort)
    listening,      \* the mount effect has registered the filterChanged listener
    event,          \* the last widget/table event that was processed
    afterCommit,    \* history: "commit" when the last event committed free text,
                    \* "next" when it was a blur or Enter right after a commit
    fn              \* inputs and results of the functions applied in isolation

vars == <<inputValue, selected, availableRows, filterModel, globalTerms,
          displayedRows, listening, event, afterCommit, fn>>

appVars == <<inputValue, selected, availableRows, filterModel, globalTerms,
             displayedRows, listening, event, afterCommit>>

---------------------------------------------------------------------------
(* Bounds of the model *)

MaxChips == 2

MaxFnRows == 2

MaxFnChips == 2

---------------------------------------------------------------------------
(* Strings *)

UpperChars ==
    <<"A","B","C","D","E","F","G","H","I","J","K","L","M",
      "N","O","P","Q","R","S","T","U","V","W","X","Y","Z">>

LowerChars ==
    <<"a","b","c","d","e","f","g","h","i","j","k","l","m",
      "n","o","p","q","r","s","t","u","v","w","x","y","z">>

toLowerChar(c) ==
    IF \E i \in DOMAIN UpperChars : UpperChars[i] = c
    THEN LowerChars[CHOOSE i \in DOMAIN UpperChars : UpperChars[i] = c]
    ELSE c

\* String.prototype.toLowerCase
toLowerCase(s) == [i \in 1..Len(s) |-> toLowerChar(s[i])]

\* String.prototype.includes: s.includes(t)
includes(s, t) ==
    \E i \in 0..(Len(s) - Len(t)) : SubSeq(s, i + 1, i + Len(t)) = t

\* String(val): every field of RowData is a string, which String returns as is
String(val) == val

sEmpty == <<>>
sAAPL == <<"A","A","P","L">>
sGOOG == <<"G","O","O","G">>
sTSLA == <<"T","S","L","A">>
sJPM == <<"J","P","M">>
sF == <<"F">>
sAppleInc == <<"A","p","p","l","e"," ","I","n","c",".">>
sAlphabetInc == <<"A","l","p","h","a","b","e","t"," ","I","n","c",".">>
sTeslaInc == <<"T","e","s","l","a"," ","I","n","c",".">>
sJPMorgan == <<"J","P"," ","M","o","r","g","a","n">>
sFord == <<"F","o","r","d">>
sTech == <<"T","e","c","h">>
sAuto == <<"A","u","t","o">>
sFinance == <<"F","i","n","a","n","c","e">>

\* texts a user types
s_tech == <<"t","e","c","h">>
s_ford == <<"f","o","r","d">>
s_xyz == <<"x","y","z">>
s_inc == <<"i","n","c">>

---------------------------------------------------------------------------
(* Rows *)

\* type RowData: the fields of a row in Object.entries order
Columns == <<"ticker", "name", "sector">>

RowData(t, n, s) == [ticker |-> t, name |-> n, sector |-> s]

rowData ==
    << RowData(sAAPL, sAppleInc, sTech),
       RowData(sGOOG, sAlphabetInc, sTech),
       RowData(sTSLA, sTeslaInc, sAuto),
       RowData(sJPM, sJPMorgan, sFinance),
       RowData(sF, sFord, sAuto) >>

\* type Suggestion
Suggestion(c, v) == [column |-> c, value |-> v]

---------------------------------------------------------------------------
(* columnValueMap: column -> unique values, from the available rows.       *)
(* The map is the sequence of its entries in insertion order; a Set is the *)
(* sequence of its members in insertion order.                             *)

hasKey(map, col) == \E i \in DOMAIN map : map[i].col = col

\* setAdd with the member assigned instead of added
setAdd_overwrite(values, val) == <<val>>

\* Set.prototype.add
setAdd(values, val) ==
    IF \E i \in DOMAIN values : values[i] = val THEN values ELSE Append(values, val)

\* if (!map[col]) map[col] = new Set(); map[col].add(String(val));
addValue(map, col, val) ==
    LET m0 == IF hasKey(map, col) THEN map
              ELSE Append(map, [col |-> col, values |-> <<>>])
    IN  [i \in DOMAIN m0 |->
            IF m0[i].col = col
            THEN [m0[i] EXCEPT !.values = setAdd(@, String(val))]
            ELSE m0[i]]

RECURSIVE addRow(_, _, _)
\* Object.entries(row).forEach(([col, val]) => ...), from field k on
addRow(map, row, k) ==
    IF k > Len(Columns) THEN map
    ELSE addRow(addValue(map, Columns[k], row[Columns[k]]), row, k + 1)

RECURSIVE buildFrom(_, _, _)
\* availableRows.forEach((row) => ...), from row i on
buildFrom(map, rows, i) ==
    IF i > Len(rows) THEN map
    ELSE buildFrom(addRow(map, rows[i], 1), rows, i + 1)

build(rows) == buildFrom(<<>>, rows, 1)

---------------------------------------------------------------------------
(* suggestions *)

\* matches with the comparison left case-sensitive
matches_caseSensitive(col, values, input) ==
    LET hit(val) == includes(val, input)
        vs == SelectSeq(values, hit)
    IN  [k \in DOMAIN vs |-> Suggestion(col, vs[k])]

\* values.forEach((val) => { if (...) results.push({column: col, value: val}) })
matches(col, values, input) ==
    LET hit(val) == includes(toLowerCase(val), toLowerCase(input))
        vs == SelectSeq(values, hit)
    IN  [k \in DOMAIN vs |-> Suggestion(col, vs[k])]

RECURSIVE suggestFrom(_, _, _)
\* Object.entries(columnValueMap).forEach(([col, values]) => ...), from entry i on
suggestFrom(input, map, i) ==
    IF i > Len(map) THEN <<>>
    ELSE matches(map[i].col, map[i].values, input) \o suggestFrom(input, map, i + 1)

\* suggest without the early return on empty input
suggest_noEmptyCheck(input, map) == suggestFrom(input, map, 1)

suggest(input, map) ==
    IF input = sEmpty THEN <<>> ELSE suggestFrom(input, map, 1)

---------------------------------------------------------------------------
(* applyFilters: chips -> filter model and global terms *)

noFilterModel == [c \in {} |-> [filterType |-> "set", values |-> <<>>]]

\* pushFilter with the accepted value assigned instead of pushed
pushFilter_overwrite(acc, s) ==
    IF s.column = "global"
    THEN [acc EXCEPT !.globalTerms = Append(@, toLowerCase(s.value))]
    ELSE [acc EXCEPT !.filterModel =
             (s.column :> [filterType |-> "set", values |-> <<s.value>>]) @@ @]

\* the body of filters.forEach((s) => ...)
pushFilter(acc, s) ==
    IF s.column = "global"
    THEN [acc EXCEPT !.globalTerms = Append(@, toLowerCase(s.value))]
    ELSE LET fm0 == IF s.column \in DOMAIN acc.filterModel
                    THEN acc.filterModel
                    ELSE acc.filterModel @@
                         (s.column :> [filterType |-> "set", values |-> <<>>])
         IN  [acc EXCEPT !.filterModel =
                 [fm0 EXCEPT ![s.column].values = Append(@, s.value)]]

RECURSIVE translateFrom(_, _, _)
translateFrom(acc, filters, i) ==
    IF i > Len(filters) THEN acc
    ELSE translateFrom(pushFilter(acc, filters[i]), filters, i + 1)

translate(filters) ==
    translateFrom([filterModel |-> noFilterModel, globalTerms |-> <<>>], filters, 1)

---------------------------------------------------------------------------
(* The grid: set filters per column and the external (global) filter *)

\* doesFilterPass of a grid that ignores the set filter model
doesFilterPass_ignored(fm, row) == TRUE

\* a column of filterType "set" keeps a row whose value is one of `values`
doesFilterPass(fm, row) ==
    \A c \in DOMAIN fm :
        \E i \in DOMAIN fm[c].values : fm[c].values[i] = String(row[c])

isExternalFilterPresent(terms) == Len(terms) > 0

\* doesExternalFilterPass with `some` in place of `every`
doesExternalFilterPass_anyTerm(terms, row) ==
    IF Len(terms) = 0 THEN TRUE
    ELSE \E k \in DOMAIN terms :
            \E j \in DOMAIN Columns :
                includes(toLowerCase(String(row[Columns[j]])), terms[k])

doesExternalFilterPass(terms, row) ==
    IF Len(terms) = 0 THEN TRUE
    ELSE \A k \in DOMAIN terms :
            \E j \in DOMAIN Columns :
                includes(toLowerCase(String(row[Columns[j]])), terms[k])

\* rowsAfterFilter that keeps a row passing either filter
rowsAfterFilter_either(rows, fm, terms) ==
    LET keep(row) ==
            \/ DOMAIN fm # {} /\ doesFilterPass(fm, row)
            \/ isExternalFilterPresent(terms) /\ doesExternalFilterPass(terms, row)
            \/ DOMAIN fm = {} /\ ~isExternalFilterPresent(terms)
    IN  SelectSeq(rows, keep)

\* api.onFilterChanged(): the rows of `rows` the grid keeps
rowsAfterFilter(rows, fm, terms) ==
    LET keep(row) ==
            /\ doesFilterPass(fm, row)
            /\ isExternalFilterPresent(terms) => doesExternalFilterPass(terms, row)
    IN  SelectSeq(rows, keep)

\* listener that never replaces the initial rows
listener_stale(nodes) == rowData

\* the filterChanged listener: the rows pushed to setAvailableRows
listener(nodes) == nodes

---------------------------------------------------------------------------
(* The component *)

\* columnValueMap built from all the rows of the table
columnValueMap_allRows == build(rowData)

\* useMemo(..., [availableRows])
columnValueMap == build(availableRows)

\* useMemo(..., [inputValue, columnValueMap])
suggestions == suggest(inputValue, columnValueMap)

\* applyFilters without the final api.onFilterChanged()
applyFilters_noRefilter(filters) ==
    LET t == translate(filters)
    IN  /\ filterModel' = t.filterModel
        /\ globalTerms' = t.globalTerms
        /\ displayedRows' = displayedRows
        /\ availableRows' = availableRows

\* setFilterModel, the two setGridOption calls and onFilterChanged; the grid
\* refilters rowData and fires filterChanged, which runs the listener
applyFilters(filters) ==
    LET t == translate(filters)
        shown == rowsAfterFilter(rowData, t.filterModel, t.globalTerms)
    IN  /\ filterModel' = t.filterModel
        /\ globalTerms' = t.globalTerms
        /\ displayedRows' = shown
        /\ availableRows' = IF listening THEN listener(shown) ELSE availableRows

RECURSIVE uniqueFrom(_, _, _)
\* the members of seq from i on, each kept once, behind acc
uniqueFrom(acc, seq, i) ==
    IF i > Len(seq) THEN acc
    ELSE uniqueFrom(setAdd(acc, seq[i]), seq, i + 1)

\* handleSelect that stores equal chips once
handleSelect_dedup(newValue) ==
    /\ selected' = uniqueFrom(<<>>, newValue, 1)
    /\ applyFilters(uniqueFrom(<<>>, newValue, 1))

\* handleSelect without the setSelected call
handleSelect_noSet(newValue) ==
    /\ selected' = selected
    /\ applyFilters(newValue)

handleSelect(newValue) ==
    /\ selected' = newValue
    /\ applyFilters(newValue)

handleInputChange(newInput) ==
    inputValue' = newInput

\* handleBlur that commits any non-empty text, suggestions or not
handleBlur_noSuggestionCheck ==
    IF inputValue # sEmpty
    THEN LET newGlobal == Suggestion("global", inputValue)
             updated == Append(selected, newGlobal)
         IN  /\ selected' = updated
             /\ inputValue' = sEmpty
             /\ applyFilters(updated)
    ELSE UNCHANGED <<inputValue, selected, availableRows, filterModel,
                     globalTerms, displayedRows>>

\* handleBlur that commits the lowercased text
handleBlur_lowercased ==
    IF inputValue # sEmpty /\ Len(suggestions) = 0
    THEN LET newGlobal == Suggestion("global", toLowerCase(inputValue))
             updated == Append(selected, newGlobal)
         IN  /\ selected' = updated
             /\ inputValue' = sEmpty
             /\ applyFilters(updated)
    ELSE UNCHANGED <<inputValue, selected, availableRows, filterModel,
                     globalTerms, displayedRows>>

handleBlur ==
    IF inputValue # sEmpty /\ Len(suggestions) = 0
    THEN LET newGlobal == Suggestion("global", inputValue)
             updated == Append(selected, newGlobal)
         IN  /\ selected' = updated
             /\ inputValue' = sEmpty
             /\ applyFilters(updated)
    ELSE UNCHANGED <<inputValue, selected, availableRows, filterModel,
                     globalTerms, displayedRows>>

\* onKeyDown whose Backspace branch re-applies the chips before the pop
onKeyDown_staleFilters(key) ==
    IF key = "Enter" /\ inputValue # sEmpty /\ Len(suggestions) = 0
    THEN LET newGlobal == Suggestion("global", inputValue)
             updated == Append(selected, newGlobal)
         IN  /\ selected' = updated
             /\ inputValue' = sEmpty
             /\ applyFilters(updated)
    ELSE IF key = "Backspace" /\ inputValue = sEmpty /\ Len(selected) > 0
    THEN LET updated == SubSeq(selected, 1, Len(selected) - 1)
         IN  /\ selected' = updated
             /\ inputValue' = inputValue
             /\ applyFilters(selected)
    ELSE UNCHANGED <<inputValue, selected, availableRows, filterModel,
                     globalTerms, displayedRows>>

\* onKeyDown whose Backspace branch does not test the input text
onKeyDown_noInputCheck(key) ==
    IF key = "Enter" /\ inputValue # sEmpty /\ Len(suggestions) = 0
    THEN LET newGlobal == Suggestion("global", inputValue)
             updated == Append(selected, newGlobal)
         IN  /\ selected' = updated
             /\ inputValue' = sEmpty
             /\ applyFilters(updated)
    ELSE IF key = "Backspace" /\ Len(selected) > 0
    THEN LET updated == SubSeq(selected, 1, Len(selected) - 1)
         IN  /\ selected' = updated
             /\ inputValue' = inputValue
             /\ applyFilters(updated)
    ELSE UNCHANGED <<inputValue, selected, availableRows, filterModel,
                     globalTerms, displayedRows>>

\* onKeyDown whose Enter branch leaves the committed text in the input
onKeyDown_keepsText(key) ==
    IF key = "Enter" /\ inputValue # sEmpty /\ Len(suggestions) = 0
    THEN LET newGlobal == Suggestion("global", inputValue)
             updated == Append(selected, newGlobal)
         IN  /\ selected' = updated
             /\ inputValue' = inputValue
             /\ applyFilters(updated)
    ELSE IF key = "Backspace" /\ inputValue = sEmpty /\ Len(selected) > 0
    THEN LET updated == SubSeq(selected, 1, Len(selected) - 1)
         IN  /\ selected' = updated
             /\ inputValue' = inputValue
             /\ applyFilters(updated)
    ELSE UNCHANGED <<inputValue, selected, availableRows, filterModel,
                     globalTerms, displayedRows>>

\* the TextField's onKeyDown; a key is Enter or Backspace or neither, so at
\* most one of the handler's two if-statements runs
onKeyDown(key) ==
    IF key = "Enter" /\ inputValue # sEmpty /\ Len(suggestions) = 0
    THEN LET newGlobal == Suggestion("global", inputValue)
             updated == Append(selected, newGlobal)
         IN  /\ selected' = updated
             /\ inputValue' = sEmpty
             /\ applyFilters(updated)
    ELSE IF key = "Backspace" /\ inputValue = sEmpty /\ Len(selected) > 0
    THEN LET updated == SubSeq(selected, 1, Len(selected) - 1)
         IN  /\ selected' = updated
             /\ inputValue' = inputValue
             /\ applyFilters(updated)
    ELSE UNCHANGED <<inputValue, selected, availableRows, filterModel,
                     globalTerms, displayedRows>>

---------------------------------------------------------------------------
(* Events *)

\* texts the user types into the input
Texts == {sEmpty, s_tech, s_ford, s_xyz, sAuto, s_inc}

Keys == {"Enter", "Backspace", "Shift"}

\* splice(index, 1)
without(seq, i) == SubSeq(seq, 1, i - 1) \o SubSeq(seq, i + 1, Len(seq))

\* an append would be a free-text commit in the current state
commits == inputValue # sEmpty /\ Len(suggestions) = 0

FnIdle ==
    [op |-> "none", rows |-> <<>>, text |-> sEmpty, chips |-> <<>>,
     index |-> <<>>, sugg |-> <<>>, filterModel |-> noFilterModel,
     globalTerms |-> <<>>, visible |-> <<>>]

Init ==
    /\ inputValue = sEmpty
    /\ selected = <<>>
    /\ availableRows = rowData
    /\ filterModel = noFilterModel
    /\ globalTerms = <<>>
    /\ displayedRows = rowData
    /\ listening = FALSE
    /\ event = "none"
    /\ afterCommit = "no"
    /\ fn = FnIdle

\* the mount effect: addEventListener("filterChanged", listener); listener()
Mount ==
    /\ ~listening
    /\ listening' = TRUE
    /\ availableRows' = listener(displayedRows)
    /\ event' = "mount"
    /\ afterCommit' = "no"
    /\ UNCHANGED <<inputValue, selected, filterModel, globalTerms, displayedRows, fn>>

\* TextChanged whose handler also resets the chips and re-applies the filters
TextChanged_resetsChips(t) ==
    /\ listening
    /\ handleInputChange(t)
    /\ handleSelect(<<>>)
    /\ event' = "textChanged"
    /\ afterCommit' = "no"
    /\ UNCHANGED <<listening, fn>>

\* the user edits the text: onInputChange
TextChanged(t) ==
    /\ listening
    /\ handleInputChange(t)
    /\ event' = "textChanged"
    /\ afterCommit' = "no"
    /\ UNCHANGED <<selected, availableRows, filterModel, globalTerms,
                   displayedRows, listening, fn>>

\* the user picks option k of the list: the Autocomplete (multiple) resets its
\* input through onInputChange and reports value + option through onChange
OptionChosen(k) ==
    /\ listening
    /\ k \in DOMAIN suggestions
    /\ Len(selected) < MaxChips
    /\ handleInputChange(sEmpty)
    /\ handleSelect(Append(selected, suggestions[k]))
    /\ event' = "optionChosen"
    /\ afterCommit' = "no"
    /\ UNCHANGED <<listening, fn>>

\* the user deletes chip i with the chip's own control: onChange
ChipDeleted(i) ==
    /\ listening
    /\ i \in DOMAIN selected
    /\ handleSelect(without(selected, i))
    /\ event' = "chipDeleted"
    /\ afterCommit' = "no"
    /\ UNCHANGED <<inputValue, listening, fn>>

Blur ==
    /\ listening
    /\ commits => Len(selected) < MaxChips
    /\ handleBlur
    /\ event' = "blur"
    /\ afterCommit' = IF commits THEN "commit"
                      ELSE IF afterCommit = "commit" THEN "next" ELSE "no"
    /\ UNCHANGED <<listening, fn>>

KeyPressed(key) ==
    /\ listening
    /\ (key = "Enter" /\ commits) => Len(selected) < MaxChips
    /\ onKeyDown(key)
    /\ event' = key
    /\ afterCommit' = IF key = "Enter" /\ commits THEN "commit"
                      ELSE IF key = "Enter" /\ afterCommit = "commit" THEN "next"
                      ELSE "no"
    /\ UNCHANGED <<listening, fn>>

Next ==
    \/ Mount
    \/ \E t \in Texts : TextChanged(t)
    \/ \E k \in DOMAIN suggestions : OptionChosen(k)
    \/ \E i \in DOMAIN selected : ChipDeleted(i)
    \/ Blur
    \/ \E key \in Keys : KeyPressed(key)

Spec == Init /\ [][Next]_vars

---------------------------------------------------------------------------
(* The functions applied in isolation: build, suggest, translate and the   *)
(* grid's filter pass on rows, texts and chips drawn from bounded sets.    *)

SeqsUpTo(S, n) == UNION {[1..k -> S] : k \in 0..n}

FnRowPool ==
    { RowData(sAAPL, sAppleInc, sTech),
      RowData(sTSLA, sTeslaInc, sAuto),
      RowData(sF, sFord, sAuto),
      RowData(sF, s_ford, sTech) }

FnTexts == {sEmpty, s_tech, s_ford, <<"A">>}

FnChipPool ==
    { Suggestion("sector", sTech), Suggestion("sector", sAuto),
      Suggestion("name", sFord), Suggestion("global", sFord) }

InitFn ==
    /\ inputValue = sEmpty
    /\ selected = <<>>
    /\ availableRows = rowData
    /\ filterModel = noFilterModel
    /\ globalTerms = <<>>
    /\ displayedRows = rowData
    /\ listening = FALSE
    /\ event = "none"
    /\ afterCommit = "no"
    /\ \E r \in SeqsUpTo(FnRowPool, MaxFnRows) :
       \E t \in FnTexts :
       \E c \in SeqsUpTo(FnChipPool, MaxFnChips) :
          fn = [FnIdle EXCEPT !.rows = r, !.text = t, !.chips = c]

FnBuild ==
    /\ fn.op = "none"
    /\ fn' = [fn EXCEPT !.op = "build", !.index = build(fn.rows)]
    /\ UNCHANGED appVars

FnSuggest ==
    /\ fn.op = "build"
    /\ fn' = [fn EXCEPT !.op = "suggest", !.sugg = suggest(fn.text, fn.index)]
    /\ UNCHANGED appVars

FnTranslate ==
    /\ fn.op = "suggest"
    /\ LET t == translate(fn.chips)
       IN  fn' = [fn EXCEPT !.op = "translate",
                            !.filterModel = t.filterModel,
                            !.globalTerms = t.globalTerms]
    /\ UNCHANGED appVars

FnFilter ==
    /\ fn.op = "translate"
    /\ fn' = [fn EXCEPT !.op = "filter",
                        !.visible = rowsAfterFilter(fn.rows, fn.filterModel,
                                                    fn.globalTerms)]
    /\ UNCHANGED appVars

NextFn == FnBuild \/ FnSuggest \/ FnTranslate \/ FnFilter

SpecFn == InitFn /\ [][NextFn]_vars

---------------------------------------------------------------------------
(* Properties *)

ColumnSet == {Columns[j] : j \in DOMAIN Columns}

\* t is a substring of v when letter case is ignored
CIContains(v, t) ==
    \E i \in 0..(Len(v) - Len(t)) :
        \A j \in 1..Len(t) : toLowerChar(v[i + j]) = toLowerChar(t[j])

\* the index holds value v under column c
inIndex(index, c, v) ==
    \E i \in DOMAIN index :
        /\ index[i].col = c
        /\ \E j \in DOMAIN index[i].values : index[i].values[j] = v

\* row is kept by the filters the chips stand for: its field equals the value
\* of some chip of every column that has a chip, and every global chip's text
\* occurs in one of its fields, ignoring case
VisibleUnder(chips, row) ==
    /\ \A k \in DOMAIN chips :
          chips[k].column # "global" =>
              \E m \in DOMAIN chips :
                  /\ chips[m].column = chips[k].column
                  /\ chips[m].value = row[chips[k].column]
    /\ \A k \in DOMAIN chips :
          chips[k].column = "global" =>
              \E c \in ColumnSet : CIContains(row[c], chips[k].value)

\* C1: in every state the column filter model and the global terms applied to
\* the grid are the translation of the current chips.
ChipsAndFiltersInSync ==
    /\ filterModel = translate(selected).filterModel
    /\ globalTerms = translate(selected).globalTerms

\* C1 witness: Backspace removed a chip and a column filter is still applied
ChipsAndFiltersInSyncWitness ==
    /\ event = "Backspace"
    /\ Len(selected) >= 1
    /\ DOMAIN filterModel # {}

FnValues ==
    UNION {{r.ticker, r.name, r.sector} : r \in FnRowPool} \cup FnTexts \cup {s_xyz}

\* C3: build(R) holds v under c iff a row of R has field c equal to v; every
\* key is a column; the index of no rows has no entry.
IndexSoundAndComplete ==
    fn.op # "none" =>
        /\ \A c \in ColumnSet \cup {"global"} : \A v \in FnValues :
              inIndex(fn.index, c, v) <=>
                  (c \in ColumnSet /\ \E i \in DOMAIN fn.rows : String(fn.rows[i][c]) = v)
        /\ \A i \in DOMAIN fn.index :
              /\ fn.index[i].col \in ColumnSet
              /\ \A j \in DOMAIN fn.index[i].values : fn.index[i].values[j] \in FnValues
        /\ (fn.rows = <<>>) => (fn.index = <<>>)

\* C3 witness: an index built from two rows that share a sector
IndexSoundAndCompleteWitness ==
    /\ fn.op = "build"
    /\ fn.rows = <<RowData(sTSLA, sTeslaInc, sAuto), RowData(sF, sFord, sAuto)>>
    /\ Len(fn.index) = 3

\* C4: for non-empty text, (c, v) is suggested iff v is in the index under c
\* and contains the text ignoring case; no suggestion is global.
SuggestExactlyMatches ==
    (fn.op \in {"suggest", "translate", "filter"} /\ fn.text # sEmpty) =>
        /\ \A c \in ColumnSet \cup {"global"} : \A v \in FnValues :
              (\E k \in DOMAIN fn.sugg : fn.sugg[k] = Suggestion(c, v)) <=>
                  (inIndex(fn.index, c, v) /\ CIContains(v, fn.text))
        /\ \A k \in DOMAIN fn.sugg :
              /\ fn.sugg[k].column # "global"
              /\ inIndex(fn.index, fn.sugg[k].column, fn.sugg[k].value)

\* C4 witness: a text in another case than the values it matches in two columns
SuggestExactlyMatchesWitness ==
    /\ fn.op = "suggest"
    /\ fn.text = s_ford
    /\ \E k \in DOMAIN fn.sugg : fn.sugg[k] = Suggestion("name", sFord)
    /\ \E k \in DOMAIN fn.sugg : fn.sugg[k] = Suggestion("name", s_ford)

\* C5: with empty input text there are no suggestions, and neither blur nor
\* Enter changes the chips.
EmptyInputNeverCommits ==
    [][ (inputValue = sEmpty) =>
            /\ suggest(sEmpty, columnValueMap) = <<>>
            /\ Len(suggestions) = 0
            /\ (event' \in {"blur", "Enter"} => selected' = selected) ]_vars

\* C5 witness: a blur with empty text and no chips left the chips empty
EmptyInputNeverCommitsWitness ==
    /\ event = "blur"
    /\ inputValue = sEmpty
    /\ selected = <<>>

\* the chips of column c, and the global chips, in chip order
chipsOf(chips, c) == SelectSeq(chips, LAMBDA s : s.column = c)

GlobalPredicateEveryTermSomeField ==
    /\ \A i \in DOMAIN rowData :
          doesExternalFilterPass(globalTerms, rowData[i]) <=>
              \A k \in DOMAIN selected :
                  selected[k].column = "global" =>
                      \E c \in ColumnSet : CIContains(rowData[i][c], selected[k].value)
    /\ (selected = <<>>) => (globalTerms = <<>> /\ displayedRows = rowData)
    /\ \A i \in DOMAIN rowData : doesExternalFilterPass(<<>>, rowData[i])

\* C7 witness: a global term keeps some rows and hides others
GlobalPredicateEveryTermSomeFieldWitness ==
    /\ Len(globalTerms) > 0
    /\ Len(displayedRows) > 0
    /\ Len(displayedRows) < Len(rowData)

\* the chips of the round-trip scenario
TechAndFord == <<Suggestion("sector", sTech), Suggestion("global", s_ford)>>

\* C8: the displayed rows are the rows whose filtered columns equal an
\* accepted value and that pass the global predicate; the chips sector Tech
\* and global ford give {sector: {Tech}} and [ford], and no row is displayed.
VisibleIffBothFilters ==
    /\ \A i \in DOMAIN rowData :
          (\E j \in DOMAIN displayedRows : displayedRows[j] = rowData[i])
              <=> VisibleUnder(selected, rowData[i])
    /\ (selected = TechAndFord) =>
          /\ filterModel = [sector |-> [filterType |-> "set", values |-> <<sTech>>]]
          /\ globalTerms = <<s_ford>>
          /\ displayedRows = <<>>
    /\ rowsAfterFilter(<<rowData[1], rowData[5]>>,
                       translate(TechAndFord).filterModel,
                       translate(TechAndFord).globalTerms) = <<>>

\* C8 witness: the scenario's chips are in the store and the table is empty
VisibleIffBothFiltersWitness ==
    /\ selected = TechAndFord
    /\ displayedRows = <<>>

\* C9: a blur or Enter with non-empty text and no suggestions appends the
\* global chip with the text as typed and clears the text.
FreeTextCommitAppends ==
    [][ (event' \in {"blur", "Enter"} /\ inputValue # sEmpty /\ Len(suggestions) = 0) =>
            /\ selected' = Append(selected, Suggestion("global", inputValue))
            /\ inputValue' = sEmpty ]_vars

\* C9 witness: blur committed the text Auto, as typed, behind a column chip
FreeTextCommitAppendsWitness ==
    /\ event = "blur"
    /\ Len(selected) = 2
    /\ selected[1].column # "global"
    /\ selected[2] = Suggestion("global", sAuto)
    /\ inputValue = sEmpty

\* C10: choosing an offered suggestion appends it to the chips and clears the
\* text; text tech over {sector: {Tech, Auto, Finance}} offers sector Tech
\* only, and choosing it leaves the chips [sector Tech] and empty text.
SelectAppendsAndClears ==
    /\ [][ (event' = "optionChosen") =>
              /\ \E k \in DOMAIN suggestions :
                    selected' = Append(selected, suggestions[k])
              /\ inputValue' = sEmpty ]_vars
    /\ [][ (event' = "optionChosen" /\ inputValue = s_tech /\ selected = <<>>) =>
              /\ selected' = <<Suggestion("sector", sTech)>>
              /\ inputValue' = sEmpty ]_vars
    /\ []( /\ suggest(s_tech, <<[col |-> "sector",
                                 values |-> <<sTech, sAuto, sFinance>>]>>)
                = <<Suggestion("sector", sTech)>>
           /\ (inputValue = s_tech /\ selected = <<>>) =>
                  suggestions = <<Suggestion("sector", sTech)>> )

\* C10 witness: sector Tech was chosen from the text tech
SelectAppendsAndClearsWitness ==
    /\ event = "optionChosen"
    /\ selected = <<Suggestion("sector", sTech)>>
    /\ inputValue = sEmpty


\* C11: Backspace with empty text and at least one chip removes the last chip
\* and keeps the others in order; with text, or with no chip, Backspace leaves
\* the chips as they are.
BackspaceRemovesLast ==
    [][ (event' = "Backspace") =>
            IF inputValue = sEmpty /\ Len(selected) > 0
            THEN /\ Len(selected') = Len(selected) - 1
                 /\ \A k \in DOMAIN selected' : selected'[k] = selected[k]
            ELSE selected' = selected ]_vars

\* C11 witness: Backspace turned two chips into the first of them
BackspaceRemovesLastWitness ==
    /\ event = "Backspace"
    /\ inputValue = sEmpty
    /\ selected = <<Suggestion("sector", sTech)>>
    /\ Len(displayedRows) = 2


\* the chips are suggestions of a column or global chips, with non-empty text
ChipsWellFormed ==
    \A k \in DOMAIN selected :
        /\ selected[k].column \in ColumnSet \cup {"global"}
        /\ selected[k].value # sEmpty

ChipsChangeOnlyByStoreOperations ==
    /\ [][ (selected' # selected) =>
              event' \in {"optionChosen", "chipDeleted", "blur", "Enter", "Backspace"} ]_vars
    /\ [][ (event' \in {"textChanged", "mount"}) =>
              UNCHANGED <<selected, filterModel, globalTerms, displayedRows>> ]_vars

\* C13 witness: a text was typed while chips and filters were in place
ChipsChangeOnlyByStoreOperationsWitness ==
    /\ event = "textChanged"
    /\ inputValue # sEmpty
    /\ Len(selected) = 2
    /\ DOMAIN filterModel # {}
    /\ Len(globalTerms) > 0


\* C14: in every state the rows the table displays are the rows that pass the
\* column filters and the global predicate that were set last.
RefilterFollowsEveryUpdate ==
    \A i \in DOMAIN rowData :
        (\E j \in DOMAIN displayedRows : displayedRows[j] = rowData[i]) <=>
            /\ doesFilterPass(filterModel, rowData[i])
            /\ doesExternalFilterPass(globalTerms, rowData[i])

\* C14 witness: the filters were replaced by a chip deletion and the table
\* shows the one row the remaining global term keeps
RefilterFollowsEveryUpdateWitness ==
    /\ event = "chipDeleted"
    /\ filterModel = noFilterModel
    /\ globalTerms = <<s_ford>>
    /\ displayedRows = <<rowData[5]>>


\* C15: choosing an option, or committing a text, adds exactly one chip behind
\* the chips there were, also when an equal chip is already among them; a
\* Backspace or chip deletion that changes the chips removes exactly one.
DuplicatesPermitted ==
    /\ [][ (event' = "optionChosen" \/ (event' \in {"blur", "Enter"} /\ commits)) =>
              /\ Len(selected') = Len(selected) + 1
              /\ SubSeq(selected', 1, Len(selected)) = selected ]_vars
    /\ [][ (event' \in {"Backspace", "chipDeleted"} /\ selected' # selected) =>
              Len(selected') = Len(selected) - 1 ]_vars

\* C15 witness: the chip sector Tech was chosen a second time
DuplicatesPermittedWitness ==
    /\ event = "optionChosen"
    /\ selected = <<Suggestion("sector", sTech), Suggestion("sector", sTech)>>


TextCommittedOnce ==
    /\ [][ (afterCommit = "commit" /\ event' \in {"blur", "Enter"}) =>
              selected' = selected ]_vars
    /\ []( (afterCommit = "commit") => inputValue = sEmpty )

\* C19 witness: a blur came right after the commit of xyz and added nothing
TextCommittedOnceWitness ==
    /\ afterCommit = "next"
    /\ event = "blur"
    /\ selected = <<Suggestion("global", s_xyz)>>
    /\ inputValue = sEmpty

====
